---- MODULE Spec2Model ----
(***************************************************************************)
(* The editor bridge of apps/mobile/app/screens/editor/tiptap/use-editor.ts *)
(* (the useEditor hook) as a state machine.  One JavaScript task is one    *)
(* action; an async function is cut at its awaits, and its continuation is *)
(* a record in saves / loads / onloads that a later action resumes.        *)
(* Consecutive awaits of command-channel sends between which the function  *)
(* neither reads nor writes hook state are resumed by one action.          *)
(***************************************************************************)
EXTENDS Integers, Sequences, FiniteSets, TLC

\* ---------------------------------------------------------------- bounds
MaxNotes == 3
\* Spec: a note is opened or started while a save is pending
MaxTime == 500
MaxNotifs == 1
MaxLoads == 1
MaxSaves == 1
\* SpecDelete: notes are opened, edited and deleted
DeleteTime == 500
DeleteNotifs == 1
DeleteLoads == 1
DeleteSaves == 1
\* SpecBurst: bursts of edits of a note that is being created
BurstTime == 1000
BurstNotifs == 3
BurstSaves == 1
\* SpecEdit: edits of a new note after loadNote({type: "new"})
EditTime == 1000
EditNotifs == 3
EditLoads == 1
EditSaves == 2
\* SpecStale: a session that inherits a save of the session before it
StaleTime == 1000
StaleNotifs == 3
StaleLoads == 1
StaleSaves == 1
\* SpecGuard, SpecConflict, SpecFail: saves that are refused, or that fail
GuardTime == 500
GuardNotifs == 1
GuardLoads == 1
GuardSaves == 1
\* SpecMissing: the note being edited is deleted
MissingTime == 500
MissingNotifs == 1
MissingLoads == 1
MissingSaves == 1
\* SpecOverlap: a note is opened while another is being opened
OverlapLoads == 2
\* SpecRestore: onLoad with a persisted app state
RestoreTime == 2
RestoreOnLoads == 1
\* SpecReload: the editor view loads twice
ReloadTime == 2
ReloadOnLoads == 2
\* SpecCreate, SpecUnlock, SpecChange: the vault dialog
DialogOpens == 1
DialogTypes == 2
DialogPresses == 2
DialogCloses == 1

\* ------------------------------------------------------ program constants
Debounce == 500
RestoreWindow == 3600000
ReplayDelay == 1
MinPassword == 3

\* the grain of time of the runs with debounce timers
TickStep == Debounce \div 2

\* ----------------------------------------------------- value conventions
\* undefined / null of the source, one per type
NoId == 0
NoHist == 0 - 1
NoSid == NoId
Undef == "undefined"
NoContent == "null"
EmptyDoc == "<p></p>"

NoteIds == 1..MaxNotes

\* what the editor can report to saveContent: a title change or a content change
TitleInput(t) == [title |-> t, content |-> Undef, type |-> "title"]
ContentInput(c) == [title |-> Undef, content |-> c, type |-> "content"]

Min(S) == CHOOSE x \in S : \A y \in S : x <= y

\* utils.isContentInvalid: empty (or absent) content, or the empty-document marker
isContentInvalid(data) == data \in {Undef, "", EmptyDoc}

\* the preview text the persistence module derives from a content block,
\* as the pair <<first 200 characters, remainder>>
HeadlineOf(data) ==
  CASE data = "c1" -> <<"h1", "x">>
    [] data = "c2" -> <<"h1", "y">>
    [] data = "c3" -> <<"h2", "x">>
    [] OTHER -> <<"", "">>

\* String.prototype.slice(0, 200) on a headline
Slice200(h) == h[1]

\* a persisted note record (db.notes.note(id).data); by = session token of
\* the save that created it (NoSid for notes that pre-exist the hook)
NoNoteRec ==
  [exists |-> FALSE, title |-> Undef, data |-> Undef, headline |-> <<"", "">>,
   contentId |-> NoId, locked |-> FALSE, conflicted |-> FALSE,
   readonly |-> FALSE, sessionId |-> NoHist, by |-> NoSid]

NoteRec(title, data, cid, locked, conflicted, ro) ==
  [exists |-> TRUE, title |-> title, data |-> data, headline |-> HeadlineOf(data),
   contentId |-> cid, locked |-> locked, conflicted |-> conflicted,
   readonly |-> ro, sessionId |-> NoHist, by |-> NoSid]

\* the NoteType value the UI passes to loadNote / keeps in currentNote.current;
\* a locked note arrives with its decrypted content inline
Item(id, n) ==
  [id |-> id, title |-> n.title, headline |-> n.headline, contentId |-> n.contentId,
   locked |-> n.locked, readonly |-> n.readonly,
   content |-> IF n.locked THEN n.data ELSE Undef]

NoNote ==
  [id |-> NoId, title |-> Undef, headline |-> <<"", "">>, contentId |-> NoId,
   locked |-> FALSE, readonly |-> FALSE, content |-> Undef]

\* one observable call made by a step: c = callee, id = note id,
\* x = numeric argument (content id, session tag), s = string argument
Call(c, id, x, s) == [c |-> c, id |-> id, x |-> x, s |-> s]

VARIABLES
  now,                \* Date.now()
  readonly,           \* hook argument readonly
  onChange,           \* hook argument onChange is passed
  isDefaultEditor,    \* editorId === ""
  sessionId,          \* React state sessionId as closed over by saveContent
  sessionIdRef,       \* sessionIdRef.current
  nextSid,            \* makeSessionId's next token
  currentNote,        \* currentNote.current
  currentContent,     \* currentContent.current.data
  sessionHistoryId,   \* sessionHistoryId.current
  saveCount,          \* saveCount.current
  state,              \* state.current
  timers,             \* pending debounce timers (timers.current)
  timeouts,           \* other pending setTimeout callbacks
  storeReadonly,      \* useEditorStore.readonly
  currentEditingNote, \* useEditorStore.currentEditingNote
  notes,              \* db.notes
  appState,           \* MMKV "appState"
  saves,              \* suspended saveNote calls
  loads,              \* suspended loadNote calls
  onloads,            \* suspended onLoad calls
  ev,                 \* who ran the last step and the calls it made
  nNotifs,            \* saveContent calls so far
  nLoads,             \* loadNote calls so far
  nOnLoads,           \* onLoad calls so far
  nTimers,            \* setTimeout calls so far
  hist,               \* history of the run, for the properties only
  lim,                \* the bounds of the run
  dialog,             \* VaultDialog: this.state and the password fields
  vaultOps,           \* VaultDialog: pending db.vault / db.notes promises
  vault,              \* db.vault
  nDialog             \* VaultDialog: user actions so far

hook == <<readonly, onChange, isDefaultEditor>>
refs == <<sessionId, sessionIdRef, nextSid, currentNote, currentContent,
          sessionHistoryId, saveCount>>
store == <<storeReadonly, currentEditingNote>>
counters == <<nNotifs, nLoads, nOnLoads, nTimers>>
dlg == <<dialog, vaultOps, vault, nDialog>>
vars == <<now, hook, refs, state, timers, timeouts, store, notes, appState,
          saves, loads, onloads, ev, counters, hist, lim, dlg>>

\* by = the function that ran, sid = the session token it carries,
\* n = which call of that function it is
NoEv == [by |-> "none", sid |-> NoSid, n |-> 0, calls |-> {}]
Ev(by, sid, n, calls) == [by |-> by, sid |-> sid, n |-> n, calls |-> calls]

\* overlap: loadNote may be called while another loadNote is in flight
Lim(time, step, nn, nl, overlap, ns, nol, inputs) ==
  [time |-> time, step |-> step, notifs |-> nn, loads |-> nl, overlap |-> overlap,
   saves |-> ns, onloads |-> nol, inputs |-> inputs]

InitialIds == {1, 2}
Keys == 0..MaxNotes            \* timer names: a note id, or 0 for "newnote"

\* ghost state reset whenever an editor session ends (a session token is
\* minted, or reset() runs)
HistNewSession(h) == [h EXCEPT !.forbid = {}, !.validToks = {}, !.sessSaves = 0]

\* a session token is minted for note id (NoId: for a new note)
Minted(h, id) == [HistNewSession(h) EXCEPT !.owner = id]

HistInit ==
  [lastNotif |-> [k \in Keys |-> [at |-> 0 - 1, n |-> 0, title |-> Undef, data |-> Undef]],
   fires |-> [k \in Keys |-> 0],
   burst |-> [k \in Keys |-> 0],
   pend |-> [k \in Keys |-> [title |-> Undef, data |-> Undef]],
   saved |-> [title |-> Undef, head |-> ""],
   forbid |-> {},
   validToks |-> {},
   reused |-> FALSE,
   sessSaves |-> 0,
   lastSave |-> [sid |-> NoSid, id |-> NoId, at |-> 0],
   twice |-> FALSE,
   owner |-> NoId,
   titled |-> NoId,
   replays |-> 0,
   lastBlob |-> [exists |-> FALSE, editing |-> FALSE, note |-> NoNote,
                 timestamp |-> 0]]

\* the parsed "appState" entry: {editing, note, timestamp}
NoBlob == [exists |-> FALSE, editing |-> FALSE, note |-> NoNote, timestamp |-> 0]

InitNotes(f2) ==
  [i \in NoteIds |->
     IF i = 1 THEN NoteRec("t1", "c1", 1, FALSE, FALSE, FALSE)
     ELSE IF i = 2 THEN NoteRec("t1", "c1", 2, f2 = "locked", f2 = "conflicted", f2 = "readonly")
     ELSE NoNoteRec]

\* ------------------------------------------------- VaultDialog: values
\* a password field: null, or the text typed
NoPassword == [set |-> FALSE, text |-> <<>>]
Text(t) == [set |-> TRUE, text |-> t]

\* !p of the source: null and "" are falsy
Falsy(p) == ~p.set \/ Len(p.text) = 0

\* note: {} of the constructor and of close()
NoDialogNote == [id |-> NoId, locked |-> FALSE]

\* the constructor, lines 38-63
DialogInit ==
  [visible |-> FALSE, wrongPassword |-> FALSE, loading |-> FALSE,
   note |-> NoDialogNote, novault |-> FALSE, locked |-> TRUE, permanant |-> FALSE,
   goToEditor |-> FALSE, share |-> FALSE, passwordsDontMatch |-> FALSE,
   deleteNote |-> FALSE, biometricUnlock |-> FALSE, changePassword |-> FALSE,
   copyNote |-> FALSE,
   password |-> NoPassword, confirmPassword |-> NoPassword, newPassword |-> NoPassword]

\* db.vault: whether a vault exists, its password, the notes locked in it,
\* and the notes deleted through the dialog
VaultWith(pw, ids) == [exists |-> TRUE, password |-> pw, locked |-> ids, deleted |-> {}]
NoVault == [exists |-> FALSE, password |-> NoPassword, locked |-> {}, deleted |-> {}]

InitVaultDialog(v) ==
  /\ dialog = DialogInit
  /\ vaultOps = {}
  /\ vault = v
  /\ nDialog = [opens |-> 0, presses |-> 0, types |-> 0, closes |-> 0, ops |-> 0]

InitEditor(ro, oc, def, f2, blob, l) ==
  /\ lim = l
  /\ now = 0
  /\ readonly = ro
  /\ onChange = oc
  /\ isDefaultEditor = def
  /\ sessionId = 1
  /\ sessionIdRef = 1
  /\ nextSid = 2
  /\ currentNote = NoNote
  /\ currentContent = NoContent
  /\ sessionHistoryId = NoHist
  /\ saveCount = 0
  /\ state = [currentlyEditing |-> FALSE, ready |-> FALSE]
  /\ timers = {}
  /\ timeouts = {}
  /\ storeReadonly = FALSE
  /\ currentEditingNote = NoId
  /\ notes = InitNotes(f2)
  /\ appState = blob
  /\ saves = {}
  /\ loads = {}
  /\ onloads = {}
  /\ ev = NoEv
  /\ nNotifs = 0
  /\ nLoads = 0
  /\ nOnLoads = 0
  /\ nTimers = 0
  /\ hist = HistInit

InitWith(ro, oc, def, f2, blob, l) ==
  /\ InitVaultDialog(NoVault)
  /\ InitEditor(ro, oc, def, f2, blob, l)

\* Spec: note 1 is plain, note 2 is locked
Init ==
  InitWith(FALSE, FALSE, TRUE, "locked", NoBlob,
           Lim(MaxTime, TickStep, MaxNotifs, MaxLoads, FALSE, MaxSaves, 0,
               {TitleInput("t2"), ContentInput("c2")}))

\* ------------------------------------------------------------- withTimer
\* clearTimeout(timers.current[id]); timers.current[id] = setTimeout(fn, duration)
\* the same without clearTimeout
withTimer_NoClear(ts, id, entry) == ts \cup {entry}

withTimer(ts, id, entry) == {t \in ts : t.key # id} \cup {entry}

\* ----------------------------------------------------------- saveContent
\* the editor reports a content change (type content) or a title change
saveContent(title, content, type) ==
  /\ nNotifs < lim.notifs
  /\ LET key == currentNote.id
         entry == [key |-> key, due |-> now + Debounce, seq |-> nTimers + 1,
                   n |-> nNotifs + 1,
                   title |-> title, data |-> content, sid |-> sessionId,
                   id |-> currentNote.id, hist |-> sessionHistoryId,
                   csid |-> sessionId]
         burst == hist.lastNotif[key].at >= 0 /\ now - hist.lastNotif[key].at < Debounce
         prev == IF burst THEN hist.pend[key] ELSE [title |-> Undef, data |-> Undef]
     IN /\ currentContent' = IF type = "content" THEN content ELSE currentContent
        /\ timers' = withTimer(timers, key, entry)
        /\ hist' = [hist EXCEPT !.lastNotif[key] = [at |-> now, n |-> nNotifs + 1,
                                                     title |-> title, data |-> content],
                                !.pend[key] =
                                   [title |-> IF title # Undef THEN title ELSE prev.title,
                                    data |-> IF content # Undef THEN content ELSE prev.data],
                                !.fires[key] = IF burst THEN @ ELSE 0,
                                !.burst[key] = IF burst THEN @ + 1 ELSE 1]
  /\ nNotifs' = nNotifs + 1
  /\ nTimers' = nTimers + 1
  /\ ev' = Ev("saveContent", sessionId, nNotifs + 1, {})
  /\ UNCHANGED <<dlg, lim, now, hook, sessionId, sessionIdRef, nextSid, currentNote,
                 sessionHistoryId, saveCount, state, timeouts, store, notes,
                 appState, saves, loads, onloads, nLoads, nOnLoads>>

SaveContentAny == \E m \in lim.inputs : saveContent(m.title, m.content, m.type)

\* ------------------------------------------------------------------ time
Due == {t.due : t \in timers} \cup {t.due : t \in timeouts}

\* the timer queue runs a due callback before those set later or due later
Earliest(t) ==
  /\ t.due <= now
  /\ \A u \in timers \cup timeouts : u.due > t.due \/ (u.due = t.due /\ u.seq >= t.seq)

Tick ==
  /\ now < lim.time
  /\ \A d \in Due : d > now
  /\ now' = Min({now + lim.step, lim.time} \cup Due)
  /\ ev' = NoEv
  /\ UNCHANGED <<dlg, lim, hook, refs, state, timers, timeouts, store, notes, appState,
                 saves, loads, onloads, counters, hist>>

\* ----------------------------------------------------------------- reset
\* reset(), from its call to its first await
ResetSync ==
  /\ currentNote' = NoNote
  /\ currentContent' = NoContent
  /\ sessionHistoryId' = NoHist
  /\ saveCount' = 0
  /\ storeReadonly' = FALSE

\* the calls reset() makes before its first await, lines 148-155
\* the same without line 148
ResetCalls_NoCancel ==
  {Call("post.title", NoId, sessionIdRef, ""), Call("clearContent", NoId, 0, "")}

ResetCalls ==
  (IF currentNote.id # NoId THEN {Call("fs.cancel", currentNote.id, 0, "")} ELSE {})
  \cup {Call("post.title", NoId, sessionIdRef, ""), Call("clearContent", NoId, 0, "")}

\* -------------------------------------------------------------- saveNote
\* the target the debounce callback gives the payload of timer t
ResolveId(t) ==
  IF currentNote # NoNote /\ t.id = NoId /\ t.sid = t.csid
  THEN currentNote.id ELSE t.id

\* noteData.contentId on the vault path
\* the same without line 238: the vault allocates a new content id
VaultContentId_Unset(note) == NoId

VaultContentId(note) == note.contentId

\* the refresh test of saveNote, after setStatus
NeedsRefresh(count, cached, ntitle, nhead) ==
  \/ count < 2
  \/ cached.title # ntitle
  \/ Slice200(cached.headline) # Slice200(nhead)

\* the test of lines 176-181
\* the same without the hook's readonly argument
SaveBlocked_NoHook == storeReadonly \/ currentNote.readonly

SaveBlocked == readonly \/ storeReadonly \/ currentNote.readonly

\* the test of line 183: an id is given and db.notes.note(id) finds nothing
\* the same with the test left out
IsMissing_Never(id, note) == FALSE

IsMissing(id, note) == id # NoId /\ ~note.exists

\* the test of line 191
\* the same with the test left out
IsConflicted_Never(note) == FALSE

IsConflicted(note) == note.conflicted

\* what a saveNote call resolves to: id, or NoId for undefined
Returns(id) == Call("saveNote.returns", id, 0, "resolved")

\* saveNote, from its call to its first await; key = the timer that called it
SaveNoteCall(p, key) ==
  LET note == IF p.id # NoId THEN notes[p.id] ELSE NoNoteRec
      invalid == isContentInvalid(p.data)
      h == IF invalid THEN now ELSE p.hist
      called == Call("saveNote", p.id, p.n, p.data)
      titled == Call("saveNote.title", p.id, p.n, p.title)
      sv == [n |-> p.n, pc |-> "add", id |-> p.id, oid |-> p.oid, sid |-> p.sid,
             title |-> p.title, data |-> p.data, hadNote |-> note.exists,
             ndSession |-> IF invalid THEN NoHist ELSE h, ndCid |-> NoId,
             ntitle |-> Undef, nhead |-> <<"", "">>]
      own == p.sid = sessionIdRef /\ p.id # NoId /\ note.exists /\ note.by = p.sid
      fired == [hist EXCEPT !.fires[key] = @ + 1,
                            !.lastSave = IF own THEN [sid |-> p.sid, id |-> p.id, at |-> p.at]
                                         ELSE @,
                            !.twice = @ \/ (/\ own
                                            /\ hist.lastSave.sid = p.sid
                                            /\ hist.lastSave.id = p.id
                                            /\ p.at - hist.lastSave.at < Debounce)]
  IN
  IF SaveBlocked
  THEN /\ ev' = Ev("timer", p.sid, p.n, {Call("timer", key, p.n, p.data), called, titled, Returns(NoId)})
       /\ hist' = fired
       /\ UNCHANGED <<refs, store, saves>>
  ELSE IF IsMissing(p.id, note)
  THEN /\ currentEditingNote' = IF isDefaultEditor THEN NoId ELSE currentEditingNote
       /\ ResetSync
       /\ saves' = saves \cup {[sv EXCEPT !.pc = "reset1"]}
       /\ ev' = Ev("timer", p.sid, p.n, {Call("timer", key, p.n, p.data), called, titled} \cup ResetCalls)
       /\ hist' = HistNewSession(fired)
       /\ UNCHANGED <<sessionId, sessionIdRef, nextSid>>
  ELSE IF IsConflicted(note)
  THEN /\ ev' = Ev("timer", p.sid, p.n, {Call("timer", key, p.n, p.data), called, titled, Returns(NoId)})
       /\ hist' = fired
       /\ UNCHANGED <<refs, store, saves>>
  ELSE /\ sessionHistoryId' = IF invalid THEN now ELSE sessionHistoryId
       /\ IF ~note.locked
          THEN /\ saves' = saves \cup {sv}
               /\ ev' = Ev("timer", p.sid, p.n,
                           {Call("timer", key, p.n, p.data), called, titled, Call("notes.add", p.id, sv.ndSession, p.data)})
          ELSE /\ saves' = saves \cup
                    {[sv EXCEPT !.pc = "vault", !.ndCid = VaultContentId(note)]}
               /\ ev' = Ev("timer", p.sid, p.n,
                           {Call("timer", key, p.n, p.data), called, titled, Call("vault.save", p.id, VaultContentId(note), p.data)})
       /\ hist' =
            IF p.sid # sessionIdRef THEN fired
            ELSE IF invalid
            THEN [fired EXCEPT !.forbid = fired.validToks, !.validToks = {}]
            ELSE [fired EXCEPT !.forbid = {}, !.validToks = @ \cup {h},
                               !.reused = @ \/ (h # NoHist /\ h \in hist.forbid)]
       /\ UNCHANGED <<sessionId, sessionIdRef, nextSid, currentNote, currentContent,
                      saveCount, store>>

\* the debounce callback of saveContent
TimerFire(t) ==
  /\ t \in timers
  /\ Earliest(t)
  /\ Cardinality(saves) < lim.saves
  /\ timers' = timers \ {t}
  /\ LET p == [n |-> t.n, id |-> ResolveId(t), oid |-> t.id, sid |-> t.sid,
               hist |-> t.hist, title |-> t.title, data |-> t.data,
               at |-> t.due - Debounce]
     IN IF onChange /\ t.data # Undef
        THEN /\ ev' = Ev("timer", t.sid, t.n, {Call("timer", t.key, t.n, t.data),
                                              Call("onChange", NoId, t.n, t.data)})
             /\ hist' = [hist EXCEPT !.fires[t.key] = @ + 1]
             /\ UNCHANGED <<refs, store, saves>>
        ELSE SaveNoteCall(p, t.key)
  /\ UNCHANGED <<dlg, lim, now, hook, state, timeouts, notes, appState, loads, onloads, counters>>

\* db.notes.add(noteData): the note-upsert of the persistence module
FreeIds == {i \in NoteIds \ InitialIds : ~notes[i].exists}

UpsertNote(rec, id, s) ==
  [exists |-> TRUE,
   title |-> IF s.title # Undef THEN s.title
             ELSE IF rec.exists THEN rec.title ELSE "untitled",
   data |-> IF s.data # Undef THEN s.data ELSE rec.data,
   headline |-> IF s.data # Undef THEN HeadlineOf(s.data) ELSE rec.headline,
   contentId |-> IF s.data # Undef /\ rec.contentId = NoId THEN id ELSE rec.contentId,
   locked |-> rec.locked, conflicted |-> rec.conflicted, readonly |-> rec.readonly,
   sessionId |-> s.ndSession,
   by |-> IF rec.exists THEN rec.by ELSE s.sid]

\* db.vault.save(noteData): re-encrypts the content under noteData.contentId,
\* or under a new content id when none is passed
VaultSaveNote(rec, id, s) ==
  [rec EXCEPT !.title = IF s.title # Undef THEN s.title ELSE @,
              !.data = IF s.data # Undef THEN s.data ELSE @,
              !.contentId = IF s.ndCid # NoId THEN s.ndCid ELSE id + MaxNotes,
              !.sessionId = s.ndSession]

\* saveNote after the write, lines 242-262: the session test, then either
\* the await of setStatus or the end of the call
\* the test of line 242
\* the same without the comparison of the session tokens
SessionStillActive_NoToken(id, sid) == id # NoId

SessionStillActive(id, sid) == id # NoId /\ sessionIdRef = sid

AfterWrite(s, id, db, calls) ==
  IF SessionStillActive(id, s.sid)
  THEN /\ saves' = (saves \ {s}) \cup
                   {[s EXCEPT !.pc = "status", !.id = id, !.ntitle = db[id].title,
                              !.nhead = db[id].headline]}
       /\ ev' = Ev("save.write", s.sid, s.n, calls \cup {Call("setStatus", id, sessionIdRef, "Saved")})
       /\ saveCount' = saveCount
       /\ hist' = hist
  ELSE /\ saves' = saves \ {s}
       /\ ev' = Ev("save.write", s.sid, s.n, calls \cup {Returns(id)})
       /\ saveCount' = saveCount + 1
       /\ hist' = hist

\* the test of line 218: no record was found before the write, and the
\* write returned an id
\* the same with the test left out
IsCreated_Always(hadNote, id) == TRUE

IsCreated(hadNote, id) == ~hadNote /\ id # NoId

\* db.notes.add resolves: lines 217-236, then lines 242-262
SaveAddResolves(s) ==
  /\ s \in saves
  /\ s.pc = "add"
  /\ s.id # NoId \/ FreeIds # {}
  /\ LET id == IF s.id # NoId THEN s.id ELSE Min(FreeIds)
         db == [notes EXCEPT ![id] = UpsertNote(notes[id], id, s)]
         created == IsCreated(s.hadNote, id)
         calls == IF created
                  THEN {Call("onNoteCreated", id, 0, "")} \cup
                       (IF s.title = Undef
                        THEN {Call("post.titleplaceholder", id, sessionIdRef, db[id].title)}
                        ELSE {})
                  ELSE {}
     IN /\ notes' = db
        /\ currentNote' = IF created THEN Item(id, db[id]) ELSE currentNote
        /\ IF currentEditingNote # id /\ isDefaultEditor
           THEN /\ timeouts' = timeouts \cup
                       {[kind |-> "setEditing", due |-> now, seq |-> nTimers + 1,
                         id |-> id, item |-> NoNote]}
                /\ nTimers' = nTimers + 1
           ELSE UNCHANGED <<timeouts, nTimers>>
        /\ AfterWrite(s, id, db, calls)
  /\ UNCHANGED <<dlg, lim, now, hook, sessionId, sessionIdRef, nextSid, currentContent,
                 sessionHistoryId, state, timers, store, appState, loads, onloads,
                 nNotifs, nLoads, nOnLoads>>

\* db.vault.save resolves: lines 238-240, then lines 242-262
SaveVaultResolves(s) ==
  /\ s \in saves
  /\ s.pc = "vault"
  /\ LET db == [notes EXCEPT ![s.id] = VaultSaveNote(notes[s.id], s.id, s)]
     IN /\ notes' = db
        /\ AfterWrite(s, s.id, db, {})
  /\ UNCHANGED <<dlg, lim, now, hook, sessionId, sessionIdRef, nextSid, currentNote,
                 currentContent, sessionHistoryId, state, timers, timeouts, store,
                 appState, loads, onloads, counters>>

\* commands.setStatus resolves: lines 246-262
SaveStatusResolves(s) ==
  /\ s \in saves
  /\ s.pc = "status"
  /\ LET refresh == NeedsRefresh(saveCount, currentNote, s.ntitle, s.nhead)
     IN /\ ev' = Ev("save.status", s.sid, s.n,
                    {Returns(s.id)} \cup
                    (IF refresh THEN {Call("queueRoutesForUpdate", s.id, saveCount, "")}
                     ELSE {Call("noRefresh", s.id, saveCount, "")}))
        /\ hist' = IF s.sid = sessionIdRef
                   THEN [hist EXCEPT !.sessSaves = @ + 1,
                                     !.saved = [title |-> s.ntitle, head |-> Slice200(s.nhead)]]
                   ELSE hist
  /\ saveCount' = saveCount + 1
  /\ saves' = saves \ {s}
  /\ UNCHANGED <<dlg, lim, now, hook, sessionId, sessionIdRef, nextSid, currentNote,
                 currentContent, sessionHistoryId, state, timers, timeouts, store,
                 notes, appState, loads, onloads, counters>>

\* reset() called by saveNote for a missing note: clearContent and clearTags
\* resolve, lines 157-161
SaveResetResolves(s) ==
  /\ s \in saves
  /\ s.pc = "reset1"
  /\ currentEditingNote' = IF isDefaultEditor THEN NoId ELSE currentEditingNote
  /\ saves' = (saves \ {s}) \cup {[s EXCEPT !.pc = "reset2"]}
  /\ ev' = Ev("save.reset", s.sid, s.n, {Call("setPlaceholder", NoId, 0, "")})
  /\ UNCHANGED <<dlg, lim, now, hook, refs, state, timers, timeouts, storeReadonly, notes,
                 appState, loads, onloads, counters, hist>>

\* setPlaceholder resolves, reset returns, saveNote returns (line 187)
SaveResetReturns(s) ==
  /\ s \in saves
  /\ s.pc = "reset2"
  /\ saves' = saves \ {s}
  /\ ev' = Ev("save.reset", s.sid, s.n, {Returns(NoId)})
  /\ UNCHANGED <<dlg, lim, now, hook, refs, state, timers, timeouts, store, notes,
                 appState, loads, onloads, counters, hist>>

\* the catch of lines 263-265: the error is logged and saveNote ends, its
\* promise resolved with undefined; line 260 does not run
\* the same with the increment of line 260 in a finally block
Caught_Finally(count) == [saveCount |-> count + 1, outcome |-> "resolved"]

Caught(count) == [saveCount |-> count, outcome |-> "resolved"]

CatchCalls(at, id) ==
  {Call("throws", id, 0, at), Call("console.log", NoId, 0, "Error saving note: "),
   Call("saveNote.returns", NoId, 0, Caught(saveCount).outcome)}

\* an awaited call of saveNote rejects: db.notes.add, db.vault.save,
\* commands.setStatus, or a command awaited by reset()
SaveRejects(s) ==
  /\ s \in saves
  /\ saves' = saves \ {s}
  /\ saveCount' = Caught(saveCount).saveCount
  /\ ev' = Ev("save.error", s.sid, s.n, CatchCalls(s.pc, s.id))
  /\ UNCHANGED <<dlg, lim, now, hook, sessionId, sessionIdRef, nextSid, currentNote,
                 currentContent, sessionHistoryId, state, timers, timeouts, store,
                 notes, appState, loads, onloads, counters, hist>>

\* the debounce callback runs and db.notes.note(id) throws at line 183
TimerFireThrows(t) ==
  /\ t \in timers
  /\ Earliest(t)
  /\ ~(onChange /\ t.data # Undef)
  /\ ~SaveBlocked
  /\ ResolveId(t) # NoId
  /\ timers' = timers \ {t}
  /\ saveCount' = Caught(saveCount).saveCount
  /\ ev' = Ev("save.error", t.sid, t.n,
              {Call("timer", t.key, t.n, t.data),
               Call("saveNote", ResolveId(t), t.n, t.data)}
              \cup CatchCalls("note", ResolveId(t)))
  /\ hist' = [hist EXCEPT !.fires[t.key] = @ + 1]
  /\ UNCHANGED <<dlg, lim, now, hook, sessionId, sessionIdRef, nextSid, currentNote,
                 currentContent, sessionHistoryId, state, timeouts, store, notes,
                 appState, saves, loads, onloads, counters>>

\* the setTimeout of line 233
SetEditingFires(t) ==
  /\ t \in timeouts
  /\ t.kind = "setEditing"
  /\ Earliest(t)
  /\ timeouts' = timeouts \ {t}
  /\ currentEditingNote' = t.id
  /\ ev' = Ev("timeout", NoSid, 0, {})
  /\ UNCHANGED <<dlg, lim, now, hook, refs, state, timers, storeReadonly, notes, appState,
                 saves, loads, onloads, counters, hist>>

\* -------------------------------------------------------------- loadNote
\* db.content.raw(contentId)
RawContent(cid) ==
  IF \E i \in NoteIds : notes[i].exists /\ notes[i].contentId = cid
  THEN notes[CHOOSE i \in NoteIds : notes[i].exists /\ notes[i].contentId = cid].data
  ELSE Undef

\* makeSessionId, setSessionId, sessionIdRef.current = nextSessionId and
\* sessionHistoryId.current = Date.now() (lines 294-297, 307-310)
MintSession ==
  /\ sessionId' = nextSid
  /\ sessionIdRef' = nextSid
  /\ nextSid' = nextSid + 1
  /\ sessionHistoryId' = now

LoadRec(n, pc, item) == [n |-> n, pc |-> pc, item |-> item]

\* loadContent(item) and, when it does not have to fetch, loadNote up to the
\* await of setSessionId (lines 306-311)
LoadContentOf(l, rest, calls) ==
  IF l.item.locked \/ l.item.content # Undef
  THEN /\ currentNote' = l.item
       /\ currentContent' = l.item.content
       /\ MintSession
       /\ loads' = rest \cup {[l EXCEPT !.pc = "sid"]}
       /\ ev' = Ev("load", nextSid, l.n, calls \cup {Call("setSessionId", l.item.id, nextSid, "")})
       /\ hist' = Minted(hist, l.item.id)
  ELSE /\ currentNote' = l.item
       /\ loads' = rest \cup {[l EXCEPT !.pc = "raw"]}
       /\ ev' = Ev("load", sessionIdRef, l.n, calls \cup {Call("content.raw", l.item.id, l.item.contentId, "")})
       /\ hist' = hist
       /\ UNCHANGED <<sessionId, sessionIdRef, nextSid, currentContent, sessionHistoryId>>

\* loadNote({type: "new"}), to its first await
LoadNew ==
  /\ nLoads < lim.loads
  /\ (lim.overlap \/ loads = {})
  /\ nLoads' = nLoads + 1
  /\ state' = [state EXCEPT !.currentlyEditing = TRUE]
  /\ IF currentNote # NoNote
     THEN /\ ResetSync
          /\ loads' = loads \cup {LoadRec(<<"load", nLoads + 1>>, "n_reset1", NoNote)}
          /\ ev' = Ev("load", sessionIdRef, <<"load", nLoads + 1>>,
                      {Call("loadNote", NoId, 0, "new")} \cup ResetCalls)
          /\ UNCHANGED <<sessionId, sessionIdRef, nextSid>>
     ELSE /\ MintSession
          /\ loads' = loads \cup {LoadRec(<<"load", nLoads + 1>>, "n_sid", NoNote)}
          /\ ev' = Ev("load", nextSid, <<"load", nLoads + 1>>, {Call("loadNote", NoId, 0, "new"),
                       Call("setSessionId", NoId, nextSid, "")})
          /\ UNCHANGED <<currentNote, currentContent, saveCount, storeReadonly>>
  /\ hist' = IF currentNote # NoNote THEN HistNewSession(hist) ELSE Minted(hist, NoId)
  /\ UNCHANGED <<dlg, lim, now, hook, timers, timeouts, currentEditingNote, notes, appState,
                 saves, onloads, nNotifs, nOnLoads, nTimers>>

\* loadNote({...item, type: "note", forced}), to its first await
\* the early return of line 302
\* the same with the early return left out
IsSameOpen_Never(item, forced) == FALSE

IsSameOpen(item, forced) == ~forced /\ currentNote.id = item.id

LoadItem(item, forced, by, k) ==
  LET asked == Call("loadNote", item.id, IF forced THEN 1 ELSE 0, "note") IN
  /\ IF IsSameOpen(item, forced)
     THEN /\ ev' = Ev(by, sessionIdRef, <<by, k>>, {asked})
          /\ UNCHANGED <<refs, store, loads, hist>>
     ELSE /\ currentEditingNote' = IF isDefaultEditor THEN item.id ELSE currentEditingNote
          /\ LET l == LoadRec(<<by, k>>, "reset1", item)
                 shown == {asked, Call("overlay", item.id, 1, "")}
             IN IF currentNote # NoNote
                THEN /\ ResetSync
                     /\ loads' = loads \cup {l}
                     /\ ev' = Ev(by, sessionIdRef, <<by, k>>, shown \cup ResetCalls)
                     /\ hist' = HistNewSession(hist)
                     /\ UNCHANGED <<sessionId, sessionIdRef, nextSid>>
                ELSE /\ LoadContentOf(l, loads, shown)
                     /\ UNCHANGED <<saveCount, storeReadonly>>

LoadNote(id, forced) ==
  /\ notes[id].exists
  /\ IF IsSameOpen(Item(id, notes[id]), forced)
     THEN UNCHANGED nLoads
     ELSE /\ nLoads < lim.loads
          /\ (lim.overlap \/ loads = {})
          /\ nLoads' = nLoads + 1
  /\ state' = [state EXCEPT !.currentlyEditing = TRUE]
  /\ LoadItem(Item(id, notes[id]), forced, "load", nLoads + 1)
  /\ UNCHANGED <<dlg, lim, now, hook, timers, timeouts, notes, appState, saves, onloads,
                 nNotifs, nOnLoads, nTimers>>

\* the continuations of loadNote, one per await
LoadResumes(l) ==
  /\ l \in loads
  /\ CASE l.pc = "n_reset1" ->
            \* reset(true) after clearContent and clearTags, lines 157-161
            /\ currentEditingNote' = IF isDefaultEditor THEN NoId ELSE currentEditingNote
            /\ loads' = (loads \ {l}) \cup {[l EXCEPT !.pc = "n_reset2"]}
            /\ ev' = Ev("load", sessionIdRef, l.n, {Call("setPlaceholder", NoId, 0, "")})
            /\ UNCHANGED <<refs, storeReadonly, hist>>
       [] l.pc = "n_reset2" ->
            \* lines 294-298
            /\ MintSession
            /\ loads' = (loads \ {l}) \cup {[l EXCEPT !.pc = "n_sid"]}
            /\ ev' = Ev("load", nextSid, l.n, {Call("setSessionId", NoId, nextSid, "")})
            /\ hist' = Minted(hist, NoId)
            /\ UNCHANGED <<currentNote, currentContent, saveCount, store>>
       [] l.pc = "n_sid" ->
            \* lines 299-300, after setSessionId and focus
            /\ storeReadonly' = FALSE
            /\ loads' = loads \ {l}
            /\ ev' = Ev("load", sessionIdRef, l.n, {Call("focus", NoId, 0, "")})
            /\ UNCHANGED <<refs, currentEditingNote, hist>>
       [] l.pc = "reset1" ->
            \* reset(false) returns; line 306
            /\ LoadContentOf(l, loads \ {l}, {})
            /\ UNCHANGED <<saveCount, store>>
       [] l.pc = "raw" ->
            \* db.content.raw resolves, lines 278, 307-311
            /\ currentContent' = RawContent(l.item.contentId)
            /\ MintSession
            /\ loads' = (loads \ {l}) \cup {[l EXCEPT !.pc = "sid"]}
            /\ ev' = Ev("load", nextSid, l.n, {Call("setSessionId", l.item.id, nextSid, "")})
            /\ hist' = Minted(hist, l.item.id)
            /\ UNCHANGED <<currentNote, saveCount, store>>
       [] l.pc = "sid" ->
            \* lines 312-313
            /\ currentNote' = l.item
            /\ loads' = (loads \ {l}) \cup {[l EXCEPT !.pc = "status"]}
            /\ ev' = Ev("load", sessionIdRef, l.n, {Call("setStatus", l.item.id, sessionIdRef, "Saved")})
            /\ UNCHANGED <<sessionId, sessionIdRef, nextSid, currentContent,
                           sessionHistoryId, saveCount, store, hist>>
       [] l.pc = "status" ->
            \* line 314
            /\ loads' = (loads \ {l}) \cup {[l EXCEPT !.pc = "title"]}
            /\ ev' = Ev("load", sessionIdRef, l.n, {Call("post.title", l.item.id, sessionIdRef, l.item.title)})
            /\ hist' = [hist EXCEPT !.titled = l.item.id]
            /\ UNCHANGED <<refs, store>>
       [] l.pc = "title" ->
            \* line 315
            /\ loads' = (loads \ {l}) \cup {[l EXCEPT !.pc = "html"]}
            /\ ev' = Ev("load", sessionIdRef, l.n, {Call("post.html", currentNote.id, sessionIdRef, currentContent)})
            /\ UNCHANGED <<refs, store, hist>>
       [] l.pc = "html" ->
            \* lines 316-317
            /\ storeReadonly' = l.item.readonly
            /\ loads' = (loads \ {l}) \cup {[l EXCEPT !.pc = "tags"]}
            /\ ev' = Ev("load", sessionIdRef, l.n, {Call("setTags", currentNote.id, 0, "")})
            /\ UNCHANGED <<refs, currentEditingNote, hist>>
       [] l.pc = "tags" ->
            \* lines 318-320
            /\ loads' = loads \ {l}
            /\ ev' = Ev("load", sessionIdRef, l.n,
                        {Call("setSettings", NoId, 0, ""), Call("overlay", NoId, 0, "")})
            /\ UNCHANGED <<refs, store, hist>>
  /\ UNCHANGED <<dlg, lim, now, hook, state, timers, timeouts, notes, appState, saves,
                 onloads, counters>>

\* an awaited call of loadNote rejects (a command of reset, db.content.raw,
\* setSessionId, setStatus, postMessage, setTags): loadNote has no catch, so
\* the call ends there
LoadRejects(l) ==
  /\ l \in loads
  /\ loads' = loads \ {l}
  /\ ev' = Ev("load.error", sessionIdRef, l.n, {Call("throws", l.item.id, 0, l.pc)})
  /\ UNCHANGED <<dlg, lim, now, hook, refs, state, timers, timeouts, store, notes, appState,
                 saves, onloads, counters, hist>>

\* ------------------------------------------------------ the editor store
\* another component sets the store's readonly flag (useEditorStore.setReadonly)
StoreSetReadonly(b) ==
  /\ storeReadonly # b
  /\ storeReadonly' = b
  /\ ev' = NoEv
  /\ UNCHANGED <<dlg, lim, now, hook, refs, state, timers, timeouts, currentEditingNote,
                 notes, appState, saves, loads, onloads, counters, hist>>

\* ----------------------------------------------------- the notes database
\* a note is deleted elsewhere in the app (db.notes.delete)
DeleteNote(id) ==
  /\ id \in InitialIds
  /\ notes[id].exists
  /\ notes' = [notes EXCEPT ![id] = NoNoteRec]
  /\ ev' = NoEv
  /\ UNCHANGED <<dlg, lim, now, hook, refs, state, timers, timeouts, store, appState, saves,
                 loads, onloads, counters, hist>>

\* ------------------------------------------------ onLoad and the restore
\* the test of restoreEditorState, lines 406-411
\* the same with <= in place of <
Restorable_Inclusive(blob, t) ==
  /\ blob.editing
  /\ ~blob.note.locked
  /\ blob.note.id # NoId
  /\ t <= blob.timestamp + RestoreWindow

Restorable(blob, t) ==
  /\ blob.editing
  /\ ~blob.note.locked
  /\ blob.note.id # NoId
  /\ t < blob.timestamp + RestoreWindow

\* MMKV.removeItem("appState"), line 423
RemoveItem(blob) == NoBlob

\* onLoad, to its first await: lines 436-445
OnLoad ==
  /\ nOnLoads < lim.onloads
  /\ nOnLoads' = nOnLoads + 1
  /\ IF currentNote # NoNote
     THEN /\ (lim.overlap \/ loads = {})
          /\ LoadItem(currentNote, TRUE, "onLoad", nOnLoads + 1)
          /\ state' = [state EXCEPT !.ready = TRUE, !.currentlyEditing = TRUE]
          /\ UNCHANGED onloads
     ELSE /\ state' = [state EXCEPT !.ready = TRUE]
          /\ onloads' = onloads \cup {[n |-> nOnLoads + 1, pc |-> "placeholder", json |-> NoBlob]}
          /\ ev' = Ev("onLoad", sessionIdRef, nOnLoads + 1,
                      {Call("setPlaceholder", NoId, 0, "")})
          /\ UNCHANGED <<refs, store, loads, hist>>
  /\ UNCHANGED <<dlg, lim, now, hook, timers, timeouts, notes, appState, saves,
                 nNotifs, nLoads, nTimers>>

\* setPlaceholder resolves, lines 446-448: restoreEditorState is called and
\* runs to its await of MMKV.getItem (line 403), then setSettings is sent
OnLoadResumes(o) ==
  /\ o \in onloads
  /\ o.pc = "placeholder"
  /\ IF isDefaultEditor
     THEN /\ onloads' = (onloads \ {o}) \cup {[o EXCEPT !.pc = "getItem", !.json = appState]}
          /\ ev' = Ev("onLoad", sessionIdRef, o.n,
                      {Call("MMKV.getItem", NoId, 0, "appState"),
                       Call("setSettings", NoId, 0, "")})
     ELSE /\ onloads' = onloads \ {o}
          /\ ev' = Ev("onLoad", sessionIdRef, o.n, {Call("setSettings", NoId, 0, "")})
  /\ UNCHANGED <<dlg, lim, now, hook, refs, state, timers, timeouts, store, notes, appState,
                 saves, loads, counters, hist>>

\* MMKV.getItem resolves, lines 404-432; json is what the store held at some
\* moment between the call and now: at the call (o.json) or now (appState),
\* the store changing only by removeItem
RestoreResumes(o) ==
  /\ o \in onloads
  /\ o.pc = "getItem"
  /\ onloads' = onloads \ {o}
  /\ \E json \in {o.json, appState} :
       IF json.exists /\ Restorable(json, now)
       THEN /\ timeouts' = timeouts \cup
                   {[kind |-> "replay", due |-> now + ReplayDelay, seq |-> nTimers + 1,
                     id |-> json.note.id, item |-> json.note]}
            /\ nTimers' = nTimers + 1
            /\ appState' = RemoveItem(appState)
            /\ state' = [state EXCEPT !.currentlyEditing = TRUE]
            /\ ev' = Ev("restore", sessionIdRef, o.n,
                        {Call("overlay", json.note.id, 1, ""),
                         Call("replay", json.note.id, 0, ""),
                         Call("MMKV.removeItem", NoId, 0, "appState")})
            /\ hist' = [hist EXCEPT !.replays = @ + 1, !.lastBlob = json]
       ELSE /\ ev' = Ev("restore", sessionIdRef, o.n, {})
            /\ hist' = [hist EXCEPT !.lastBlob = json]
            /\ UNCHANGED <<timeouts, appState, state, nTimers>>
  /\ UNCHANGED <<dlg, lim, now, hook, refs, timers, store, notes, saves, loads,
                 nNotifs, nLoads, nOnLoads>>

\* the setTimeout of line 418: loadNote(appState.note)
ReplayFires(t) ==
  /\ t \in timeouts
  /\ t.kind = "replay"
  /\ Earliest(t)
  /\ (lim.overlap \/ loads = {})
  /\ timeouts' = timeouts \ {t}
  /\ state' = [state EXCEPT !.currentlyEditing = TRUE]
  /\ LoadItem(t.item, FALSE, "replay", t.seq)
  /\ UNCHANGED <<dlg, lim, now, hook, timers, notes, appState, saves, onloads, counters>>

\* ---------------------------------------------------------- specifications
Editing ==
  \/ SaveContentAny
  \/ Tick
  \/ \E t \in timers : TimerFire(t)
  \/ \E s \in saves : SaveAddResolves(s)
  \/ \E s \in saves : SaveStatusResolves(s)
  \/ \E t \in timeouts : SetEditingFires(t)

Loading ==
  \/ LoadNew
  \/ \E id \in NoteIds, f \in BOOLEAN : LoadNote(id, f)
  \/ \E l \in loads : LoadResumes(l)

\* Spec: notes are switched while saves are pending; note 2 may be locked
Next ==
  \/ Editing
  \/ Loading
  \/ \E s \in saves : SaveVaultResolves(s)

Spec == Init /\ [][Next]_vars

\* SpecDelete: a note is opened and edited, and notes are deleted elsewhere
\* in the app
InitDelete ==
  InitWith(FALSE, FALSE, TRUE, "plain", NoBlob,
           Lim(DeleteTime, TickStep, DeleteNotifs, DeleteLoads, FALSE, DeleteSaves, 0,
               {TitleInput("t2"), ContentInput("c2")}))

NextDelete ==
  \/ Editing
  \/ Loading
  \/ \E id \in NoteIds : DeleteNote(id)
  \/ \E s \in saves : SaveResetResolves(s)
  \/ \E s \in saves : SaveResetReturns(s)

SpecDelete == InitDelete /\ [][NextDelete]_vars

\* SpecBurst: bursts of edits of a note that is being created
InitBurst ==
  InitWith(FALSE, FALSE, TRUE, "plain", NoBlob,
           Lim(BurstTime, TickStep, BurstNotifs, 0, FALSE, BurstSaves, 0,
               {TitleInput("t2"), ContentInput(EmptyDoc), ContentInput("c2")}))

SpecBurst == InitBurst /\ [][Editing]_vars

\* SpecEdit: edits of a new note after loadNote({type: "new"})
InitEdit ==
  InitWith(FALSE, FALSE, TRUE, "plain", NoBlob,
           Lim(EditTime, TickStep, EditNotifs, EditLoads, FALSE, EditSaves, 0,
               {TitleInput("t2"), ContentInput(EmptyDoc), ContentInput("c2")}))

NextEdit ==
  \/ Editing
  \/ LoadNew
  \/ \E l \in loads : LoadResumes(l)

SpecEdit == InitEdit /\ [][NextEdit]_vars

\* SpecStale: a note is opened while an edit is pending, then edited
InitStale ==
  InitWith(FALSE, FALSE, TRUE, "plain", NoBlob,
           Lim(StaleTime, Debounce, StaleNotifs, StaleLoads, FALSE, StaleSaves, 0,
               {TitleInput("t2"), ContentInput("c2")}))

NextStale ==
  \/ Editing
  \/ \E id \in NoteIds, f \in BOOLEAN : LoadNote(id, f)
  \/ \E l \in loads : LoadResumes(l)

SpecStale == InitStale /\ [][NextStale]_vars

\* SpecRestore: the editor view loads with any app state left in the
\* key-value store
BlobAges == {RestoreWindow + 1, RestoreWindow, RestoreWindow - 1}

Blobs ==
  {NoBlob} \cup
  {[exists |-> TRUE, editing |-> e, note |-> n, timestamp |-> 0 - a] :
     e \in BOOLEAN, a \in BlobAges,
     n \in {NoNote, Item(1, InitNotes("plain")[1]), Item(2, InitNotes("locked")[2])}}

InitRestore ==
  \E b \in Blobs, def \in BOOLEAN :
    InitWith(FALSE, FALSE, def, "locked", b,
             Lim(RestoreTime, ReplayDelay, 0, 0, FALSE, 0, RestoreOnLoads, {}))

NextRestore ==
  \/ OnLoad
  \/ \E o \in onloads : OnLoadResumes(o)
  \/ \E o \in onloads : RestoreResumes(o)
  \/ \E t \in timeouts : ReplayFires(t)
  \/ \E l \in loads : LoadResumes(l)
  \/ Tick

SpecRestore == InitRestore /\ [][NextRestore]_vars

\* SpecReload: the same with a second load of the editor view
InitReload ==
  \E b \in Blobs, def \in BOOLEAN :
    InitWith(FALSE, FALSE, def, "locked", b,
             Lim(ReloadTime, ReplayDelay, 0, 0, FALSE, 0, ReloadOnLoads, {}))

SpecReload == InitReload /\ [][NextRestore]_vars

\* SpecGuard: any hook, note 2 readonly, and the store's readonly flag set
\* by another component
GuardLim ==
  Lim(GuardTime, Debounce, GuardNotifs, GuardLoads, FALSE, GuardSaves, 0,
      {TitleInput("t2"), ContentInput("c2")})

InitGuard ==
  \E ro \in BOOLEAN : InitWith(ro, FALSE, TRUE, "readonly", NoBlob, GuardLim)

Opening ==
  \/ \E id \in NoteIds : LoadNote(id, FALSE)
  \/ \E l \in loads : LoadResumes(l)

NextGuard ==
  \/ Editing
  \/ Opening
  \/ StoreSetReadonly(TRUE)

SpecGuard == InitGuard /\ [][NextGuard]_vars

\* SpecConflict: note 2 is marked conflicted
InitConflict == InitWith(FALSE, FALSE, TRUE, "conflicted", NoBlob, GuardLim)

SpecConflict == InitConflict /\ [][Editing \/ Opening]_vars

\* SpecFail: note 2 is locked, and calls made by saveNote fail
InitFail == InitWith(FALSE, FALSE, TRUE, "locked", NoBlob, GuardLim)

NextFail ==
  \/ Editing
  \/ Opening
  \/ \E s \in saves : SaveVaultResolves(s)
  \/ \E s \in saves : SaveRejects(s)
  \/ \E t \in timers : TimerFireThrows(t)

SpecFail == InitFail /\ [][NextFail]_vars

\* SpecMissing: notes are opened and edited, and the first note is deleted
\* elsewhere in the app
InitMissing ==
  InitWith(FALSE, FALSE, TRUE, "plain", NoBlob,
           Lim(MissingTime, Debounce, MissingNotifs, MissingLoads, FALSE,
               MissingSaves, 0, {ContentInput("c2")}))

NextMissing ==
  \/ Editing
  \/ Opening
  \/ DeleteNote(Min(InitialIds))
  \/ \E s \in saves : SaveResetResolves(s)
  \/ \E s \in saves : SaveResetReturns(s)

SpecMissing == InitMissing /\ [][NextMissing]_vars

\* SpecObserver: the hook is given an onChange observer
InitObserver ==
  InitWith(FALSE, TRUE, TRUE, "plain", NoBlob,
           Lim(BurstTime, TickStep, BurstNotifs, 0, FALSE, BurstSaves, 0,
               {TitleInput("t2"), ContentInput(EmptyDoc), ContentInput("c2")}))

SpecObserver == InitObserver /\ [][Editing]_vars

\* SpecOverlap: loadNote is called while an earlier loadNote is suspended
InitOverlap ==
  InitWith(FALSE, FALSE, TRUE, "locked", NoBlob,
           Lim(0, Debounce, 0, OverlapLoads, TRUE, 0, 0, {}))

SpecOverlap == InitOverlap /\ [][Opening]_vars

\* SpecDismiss: the editor view loads, and calls awaited by loadNote may
\* fail; whatever can run does run
NextDismiss ==
  \/ NextRestore
  \/ \E l \in loads : LoadRejects(l)

SpecDismiss == InitRestore /\ [][NextDismiss]_vars /\ WF_vars(NextDismiss)

\* ============================================================ VaultDialog
\* ------------------------------------------------------------- its inputs
PlainNote == [id |-> 1, locked |-> FALSE]
LockedNote == [id |-> 2, locked |-> TRUE]
GoodPassword == Text(<<"a", "b", "c">>)

\* what the user can type in a field
Typed == {Text(<<>>), Text(<<"a", "b">>), GoodPassword, Text(<<"x", "y", "z">>)}

NoteActions == {"permanant", "goToEditor", "share", "deleteNote", "copyNote"}

\* the argument of open(): the note, and the flags of the flow
Data(item, novault, locked, action, change) ==
  [item |-> item, novault |-> novault, locked |-> locked,
   permanant |-> action = "permanant", goToEditor |-> action = "goToEditor",
   share |-> action = "share", deleteNote |-> action = "deleteNote",
   copyNote |-> action = "copyNote", changePassword |-> change]

CreateFlows ==
  {Data(NoDialogNote, FALSE, TRUE, "none", FALSE),
   Data(PlainNote, FALSE, TRUE, "none", FALSE)}
LockFlows == {Data(PlainNote, TRUE, TRUE, "none", FALSE)}
UnlockFlows == {Data(LockedNote, TRUE, TRUE, a, FALSE) : a \in NoteActions}
ChangeFlows == {Data(NoDialogNote, TRUE, FALSE, "none", TRUE)}

\* ------------------------------------------------------------ db.vault
\* unlock, open, remove and changePassword resolve for the vault's password
\* and reject for any other
Accepts(v, pw) == v.exists /\ pw = v.password
WrongPassword == "wrongPassword"
ErrorOf(v) == IF v.exists THEN WrongPassword ELSE "noVault"

\* a pending promise of db.vault or db.notes: the call and its arguments
Op(kind, id, pw, npw) ==
  [kind |-> kind, id |-> id, pw |-> pw, npw |-> npw, n |-> nDialog.ops + 1]

PwCall(c, id, pw) == Call(c, id, Len(pw.text), IF pw.set THEN "text" ELSE "null")

\* ---------------------------------------------------------- the component
\* close(), line 110
CloseRefused_Never(d) == FALSE
CloseRefused(d) == d.loading

\* close(), lines 109-133
Closed(d) ==
  IF CloseRefused(d) THEN d
  ELSE [d EXCEPT !.password = NoPassword, !.confirmPassword = NoPassword,
                 !.visible = FALSE, !.note = NoDialogNote, !.locked = FALSE,
                 !.permanant = FALSE, !.goToEditor = FALSE, !.share = FALSE,
                 !.novault = FALSE, !.deleteNote = FALSE,
                 !.passwordsDontMatch = FALSE]

CloseCalls(d) ==
  IF CloseRefused(d) THEN {Call("toast", NoId, 0, "Please wait")}
  ELSE {Call("close", NoId, 0, "done")}

\* _takeErrorAction, lines 338-347
TakeErrorAction(d, e) ==
  IF e = WrongPassword THEN [d EXCEPT !.wrongPassword = TRUE] ELSE d

ErrorCalls(e) ==
  IF e = WrongPassword THEN {Call("toast", NoId, 0, "Password is incorrect")} ELSE {}

\* one step of the component: the new state, the promises it starts and the
\* calls it makes
Step(d, ops, calls) == [d |-> d, ops |-> ops, calls |-> calls]

Dialog(by, r, v, count) ==
  /\ dialog' = r.d
  /\ vaultOps' = (vaultOps \ {o \in vaultOps : o.n = by.n}) \cup r.ops
  /\ vault' = v
  /\ nDialog' = [count EXCEPT !.ops = @ + Cardinality(r.ops)]
  /\ ev' = Ev(by.s, NoSid, by.n, r.calls)
  /\ UNCHANGED <<now, hook, refs, state, timers, timeouts, store, notes, appState,
                 saves, loads, onloads, counters, hist, lim>>

User(s) == [s |-> s, n |-> 0]
Promise(o, s) == [s |-> s, n |-> o.n]

\* open(), lines 79-107: no fingerprint credentials are stored
Open(data) ==
  /\ nDialog.opens < DialogOpens
  /\ Dialog(User("dialog.open"),
            Step([dialog EXCEPT !.visible = TRUE, !.note = data.item,
                                !.novault = data.novault, !.locked = data.locked,
                                !.permanant = data.permanant,
                                !.goToEditor = data.goToEditor,
                                !.share = data.share,
                                !.deleteNote = data.deleteNote,
                                !.copyNote = data.copyNote,
                                !.biometricUnlock = FALSE,
                                !.changePassword = data.changePassword],
                 {}, {}),
            vault, [nDialog EXCEPT !.opens = @ + 1])

\* render(), lines 448-469 and 535-554: the password inputs
PasswordShown(d) ==
  \/ (d.novault \/ d.changePassword) /\ ~d.loading
  \/ ~d.novault

TypePassword(v) ==
  /\ dialog.visible /\ PasswordShown(dialog)
  /\ nDialog.types < DialogTypes
  /\ Dialog(User("dialog.password"), Step([dialog EXCEPT !.password = v], {}, {}),
            vault, [nDialog EXCEPT !.types = @ + 1])

\* render(), lines 499-520: the new password input
TypeNewPassword(v) ==
  /\ dialog.visible /\ dialog.changePassword /\ ~dialog.loading
  /\ nDialog.types < DialogTypes
  /\ Dialog(User("dialog.newPassword"), Step([dialog EXCEPT !.newPassword = v], {}, {}),
            vault, [nDialog EXCEPT !.types = @ + 1])

\* render(), lines 535 and 575-595: the confirmation input
TypeConfirmPassword(v) ==
  /\ dialog.visible /\ ~dialog.novault
  /\ nDialog.types < DialogTypes
  /\ Dialog(User("dialog.confirmPassword"),
            Step([dialog EXCEPT !.confirmPassword = v,
                                !.passwordsDontMatch = (v # dialog.password)],
                 {}, {}),
            vault, [nDialog EXCEPT !.types = @ + 1])

\* render(), line 648: the negative button
Close ==
  /\ dialog.visible
  /\ nDialog.closes < DialogCloses
  /\ Dialog(User("dialog.close"), Step(Closed(dialog), {}, CloseCalls(dialog)),
            vault, [nDialog EXCEPT !.closes = @ + 1])

\* onPress, line 136
PressIgnored(d) == d.loading

\* onPress, lines 137-139 and 156-158
FillCalls(p) ==
  IF Falsy(p) THEN {Call("toast", NoId, 0, "You must fill all the fields.")} ELSE {}

\* onPress, lines 140-154: the create-vault flow
PressCreate(d) ==
  IF ~Falsy(d.password) /\ Len(d.password.text) < MinPassword
  THEN Step(d, {}, {Call("toast", NoId, 0, "Password too short")})
  ELSE IF d.password # d.confirmPassword
  THEN Step([d EXCEPT !.passwordsDontMatch = TRUE], {},
            {Call("toast", NoId, 0, "Passwords do not match")})
  ELSE Step(d, {Op("create", NoId, d.password, NoPassword)},
            {PwCall("vault.create", NoId, d.password)})

\* onPress, lines 155-186: the change-password flow
PressChange(d) ==
  IF ~Falsy(d.newPassword) /\ Len(d.newPassword.text) < MinPassword
  THEN Step(d, {}, FillCalls(d.newPassword)
                   \cup {Call("toast", NoId, 0, "New password too short")})
  ELSE Step([d EXCEPT !.loading = TRUE],
            {Op("changePassword", NoId, d.password, d.newPassword)},
            FillCalls(d.newPassword)
            \cup {PwCall("vault.changePassword", NoId, d.password)})

\* the locked branch without the unlock: the note is opened at once
PressLocked_NoUnlock(d) ==
  Step(d, {Op("open", d.note.id, d.password, NoPassword)},
       {PwCall("vault.open", d.note.id, d.password)})

\* onPress, lines 187-210: the flows of a note; trim() === 0 never holds
PressLocked(d) ==
  IF Falsy(d.password)
  THEN Step([d EXCEPT !.wrongPassword = TRUE], {},
            {Call("toast", NoId, 0, "Password is invalid")})
  ELSE Step(d, {Op("unlock", NoId, d.password, NoPassword)},
            {PwCall("vault.unlock", NoId, d.password)})

\* onPress, lines 135-214; state.fingerprintEnroll is never set
OnPress(d) ==
  IF PressIgnored(d) THEN Step(d, {}, {})
  ELSE LET r == IF ~d.novault THEN PressCreate(d)
                ELSE IF d.changePassword THEN PressChange(d)
                ELSE IF d.locked THEN PressLocked(d)
                ELSE Step(d, {}, {})
       IN  Step(r.d, r.ops, FillCalls(d.password) \cup r.calls)

\* render(), line 649: the positive button
Press ==
  /\ dialog.visible
  /\ nDialog.presses < DialogPresses
  /\ Dialog(User("dialog.press"), OnPress(dialog), vault,
            [nDialog EXCEPT !.presses = @ + 1])

\* _createVault, lines 282-293, once db.vault.create has resolved
CreateResolves(o) ==
  /\ o.kind = "create"
  /\ Dialog(Promise(o, "vault.create.resolved"),
            IF dialog.note.id # NoId /\ ~dialog.note.locked
            THEN Step(dialog, {Op("createAdd", dialog.note.id, NoPassword, NoPassword)},
                      {Call("vault.add", dialog.note.id, 0, "")})
            ELSE Step(Closed(dialog), {},
                      {Call("vaultUpdated", NoId, 0, "")} \cup CloseCalls(dialog)),
            IF vault.exists THEN vault ELSE [vault EXCEPT !.exists = TRUE, !.password = o.pw],
            nDialog)

\* _createVault, lines 287-289, once db.vault.add has resolved
CreateAddResolves(o) ==
  /\ o.kind = "createAdd"
  /\ Dialog(Promise(o, "vault.createAdd.resolved"),
            Step(Closed(dialog), {}, CloseCalls(dialog)),
            [vault EXCEPT !.locked = @ \cup {o.id}], nDialog)

\* onPress, lines 169-178
ChangeResolves(o) ==
  /\ o.kind = "changePassword"
  /\ Accepts(vault, o.pw)
  /\ LET d == [dialog EXCEPT !.loading = FALSE]
     IN  Dialog(Promise(o, "vault.changePassword.resolved"),
                Step(Closed(d), {}, CloseCalls(d)),
                [vault EXCEPT !.password = o.npw], nDialog)

\* onPress, lines 179-186
ChangeRejects(o) ==
  /\ o.kind = "changePassword"
  /\ ~Accepts(vault, o.pw)
  /\ Dialog(Promise(o, "vault.changePassword.rejected"),
            Step([dialog EXCEPT !.loading = FALSE], {},
                 {Call("rejected", NoId, 0, ErrorOf(vault))}),
            vault, nDialog)

\* _lockNote, lines 216-225
LockNote(d) ==
  IF Falsy(d.password) THEN Step(d, {}, {Call("toast", NoId, 0, "Password is invalid")})
  ELSE Step(d, {Op("add", d.note.id, NoPassword, NoPassword)},
            {Call("vault.add", d.note.id, 0, "")})

\* _unlockNote, lines 227-239, with _permanantUnlock, lines 296-298, and
\* _openNote, lines 241-243
UnlockNote(d) ==
  IF Falsy(d.password) THEN Step(d, {}, {Call("toast", NoId, 0, "Password is invalid")})
  ELSE IF d.permanant
  THEN Step(d, {Op("remove", d.note.id, d.password, NoPassword)},
            {PwCall("vault.remove", d.note.id, d.password)})
  ELSE Step(d, {Op("open", d.note.id, d.password, NoPassword)},
            {PwCall("vault.open", d.note.id, d.password)})

\* onPress, lines 197-206
UnlockResolves(o) ==
  /\ o.kind = "unlock"
  /\ Accepts(vault, o.pw)
  /\ LET d == [dialog EXCEPT !.wrongPassword = FALSE]
     IN  Dialog(Promise(o, "vault.unlock.resolved"),
                IF d.note.locked THEN UnlockNote(d) ELSE LockNote(d),
                vault, nDialog)

\* a rejected promise handed to _takeErrorAction: onPress, lines 207-209,
\* _openNote, lines 256-258, _permanantUnlock, lines 303-306
Rejects(o) ==
  /\ o.kind \in {"unlock", "open", "remove"}
  /\ ~Accepts(vault, o.pw)
  /\ Dialog(Promise(o, "vault.rejected"),
            Step(TakeErrorAction(dialog, ErrorOf(vault)), {},
                 {Call("rejected", o.id, 0, o.kind)} \cup ErrorCalls(ErrorOf(vault))),
            vault, nDialog)

\* _lockNote, lines 221-223
AddResolves(o) ==
  /\ o.kind = "add"
  /\ Dialog(Promise(o, "vault.add.resolved"),
            Step(Closed(dialog), {}, CloseCalls(dialog)),
            [vault EXCEPT !.locked = @ \cup {o.id}], nDialog)

\* _permanantUnlock, lines 299-302
RemoveResolves(o) ==
  /\ o.kind = "remove"
  /\ Accepts(vault, o.pw)
  /\ Dialog(Promise(o, "vault.remove.resolved"),
            Step(Closed(dialog), {}, {Call("removed", o.id, 0, "")} \cup CloseCalls(dialog)),
            [vault EXCEPT !.locked = @ \ {o.id}], nDialog)

\* _openNote, lines 244-255, with _openInEditor, _shareNote and _copyNote,
\* lines 309-336. _copyNote names Clipboard, which the module does not
\* import: either a global of that name exists and the text is copied, or
\* the call throws and the catch of _openNote hands the error to
\* _takeErrorAction
OpenResolves(o) ==
  /\ o.kind = "open"
  /\ Accepts(vault, o.pw)
  /\ \E bound \in BOOLEAN :
       Dialog(Promise(o, "vault.open.resolved"),
              IF dialog.goToEditor
              THEN Step(Closed(dialog), {},
                        {Call("openInEditor", o.id, 0, "")} \cup CloseCalls(dialog))
              ELSE IF dialog.share
              THEN Step(Closed(dialog), {},
                        {Call("share", o.id, 0, "")} \cup CloseCalls(dialog))
              ELSE IF dialog.deleteNote
              THEN Step(dialog, {Op("delete", dialog.note.id, NoPassword, NoPassword)},
                        {Call("notes.delete", dialog.note.id, 0, "")})
              ELSE IF dialog.copyNote
              THEN IF bound
                   THEN Step(Closed(dialog), {},
                             {Call("copy", o.id, 0, "")} \cup CloseCalls(dialog))
                   ELSE Step(TakeErrorAction(dialog, "ReferenceError"), {},
                             {Call("throws", o.id, 0, "ReferenceError")})
              ELSE Step(dialog, {}, {}),
              vault, nDialog)

\* _deleteNote, lines 261-266, once db.notes.delete has resolved
DeleteResolves(o) ==
  /\ o.kind = "delete"
  /\ Dialog(Promise(o, "notes.delete.resolved"),
            Step(Closed(dialog), {}, {Call("deleted", o.id, 0, "")} \cup CloseCalls(dialog)),
            [vault EXCEPT !.locked = @ \ {o.id}, !.deleted = @ \cup {o.id}], nDialog)

InitDialog(v) ==
  /\ InitVaultDialog(v)
  /\ InitEditor(FALSE, FALSE, TRUE, "locked", NoBlob,
                Lim(0, Debounce, 0, 0, FALSE, 0, 0, {}))

\* SpecCreate: there is no vault, and the dialog is opened to create one
NextCreate ==
  \/ \E data \in CreateFlows : Open(data)
  \/ \E v \in Typed : TypePassword(v) \/ TypeConfirmPassword(v)
  \/ Press
  \/ Close
  \/ \E o \in vaultOps : CreateResolves(o) \/ CreateAddResolves(o)

SpecCreate == InitDialog(NoVault) /\ [][NextCreate]_vars

\* SpecUnlock: there is a vault, and the dialog is opened to lock a note or
\* to act on a locked one
NextUnlock ==
  \/ \E data \in LockFlows \cup UnlockFlows : Open(data)
  \/ \E v \in Typed : TypePassword(v)
  \/ Press
  \/ Close
  \/ \E o \in vaultOps :
       \/ UnlockResolves(o) \/ Rejects(o)
       \/ AddResolves(o) \/ RemoveResolves(o)
       \/ OpenResolves(o) \/ DeleteResolves(o)

SpecUnlock == InitDialog(VaultWith(GoodPassword, {LockedNote.id})) /\ [][NextUnlock]_vars

\* SpecChange: there is a vault, and the dialog is opened to change its
\* password
NextChange ==
  \/ \E data \in ChangeFlows : Open(data)
  \/ \E v \in Typed : TypePassword(v) \/ TypeNewPassword(v)
  \/ Press
  \/ Close
  \/ \E o \in vaultOps : ChangeResolves(o) \/ ChangeRejects(o)

SpecChange == InitDialog(VaultWith(GoodPassword, {LockedNote.id})) /\ [][NextChange]_vars

\* ================================================================ claims
SaveSteps == {"timer", "save.write", "save.status", "save.reset"}
Called(c) == \E x \in ev.calls : x.c = c

\* C1: a payload made while note A, or a not yet created note, was current
\* is never written to a different note B: a pending write goes to the note
\* the payload was made for, or to no note (a new record), or to the note
\* the payload's own session created.
C1_NoCrossWrite ==
  \A s \in saves :
    (s.pc \in {"add", "vault"} /\ s.id # NoId) =>
      \/ s.oid = s.id
      \/ s.oid = NoId /\ notes[s.id].by = s.sid

\* C2: a saveNote whose write completes under another session token than the
\* one in its payload sends no setStatus, queues no list refresh and ends;
\* saveNote sends setStatus only when the two tokens are equal.
C2_StaleSaveSilent ==
  /\ (ev.by = "save.write" /\ ev.sid # sessionIdRef) =>
       /\ ~Called("setStatus")
       /\ ~Called("queueRoutesForUpdate")
       /\ \A s \in saves : s.n # ev.n
  /\ (ev.by \in SaveSteps /\ Called("setStatus")) => ev.sid = sessionIdRef
  /\ Called("queueRoutesForUpdate") =>
       /\ ev.by = "save.status"
       /\ ev.n \notin {s.n : s \in saves}

C2_Witness ==
  /\ ev.by = "save.write"
  /\ ev.sid # sessionIdRef
  /\ \E i \in NoteIds : notes[i].exists /\ notes[i].data = "c2"

\* C4: loadNote of type note for the id of the current note, not forced,
\* mints no session, fetches nothing, emits no overlay event, sends no
\* command, and leaves session token, current note, content, history token
\* and save counter as they were.
C4_IdempotentOpen ==
  [][(\E c \in ev'.calls : c.c = "loadNote" /\ c.s = "note" /\ c.x = 0
                            /\ c.id = currentNote.id)
       => /\ UNCHANGED <<sessionId, sessionIdRef, nextSid, currentNote,
                         currentContent, sessionHistoryId, saveCount>>
          /\ loads' = loads
          /\ ev'.calls = {Call("loadNote", currentNote.id, 0, "note")}]_vars

C4_Witness ==
  /\ currentNote.id \in InitialIds
  /\ loads = {}
  /\ ev.calls = {Call("loadNote", currentNote.id, 0, "note")}

\* C5: a saveNote whose payload token is not the active session token leaves
\* current note, current content, history token and save counter alone (so
\* it does not run reset either).
C5_StaleSaveLeavesEditor ==
  [][(ev'.by \in SaveSteps /\ ev'.sid # sessionIdRef
        /\ (ev'.by = "timer" => \E c \in ev'.calls : c.c = "saveNote"))
       => UNCHANGED <<currentNote, currentContent, sessionHistoryId, saveCount>>]_vars

\* C6: a save that targets a locked note goes to db.vault.save with the
\* note's own contentId, never to db.notes.add, and the locked note keeps
\* its content id.
C6_LockedSaveRouting ==
  /\ \A c \in ev.calls :
       /\ c.c = "notes.add" => (c.id = NoId \/ ~notes[c.id].locked)
       /\ c.c = "vault.save" => (notes[c.id].locked /\ c.x = notes[c.id].contentId)
  /\ \A c \in ev.calls :
       (/\ c.c = "saveNote" /\ c.id # NoId /\ notes[c.id].exists
        /\ notes[c.id].locked /\ ~notes[c.id].conflicted
        /\ ~(readonly \/ storeReadonly \/ currentNote.readonly))
       => \E v \in ev.calls : v.c = "vault.save" /\ v.id = c.id
  /\ \A i \in InitialIds : (notes[i].exists /\ notes[i].locked) => notes[i].contentId = i

C6_Witness ==
  /\ ev.by = "save.write"
  /\ \E i \in InitialIds : notes[i].locked /\ notes[i].data = "c2"

C7_HistoryTokenFresh == ~hist.reused

\* C8: the 1st and the 2nd save of an editor session always queue a list
\* refresh; the 3rd and later ones queue it exactly when the saved title or
\* the first 200 characters of the saved headline differ from the cached note.
C8_RefreshThresholds ==
  (ev.by = "save.status" /\ ev.sid = sessionIdRef) =>
     /\ hist.sessSaves <= 2 => Called("queueRoutesForUpdate")
     /\ hist.sessSaves >= 3 =>
          (Called("queueRoutesForUpdate") <=>
             \/ currentNote.title # hist.saved.title
             \/ Slice200(currentNote.headline) # hist.saved.head)

\* C9: restoreEditorState replays the stored app state exactly when it has
\* editing set, a note with an id that is not locked, and is younger than
\* 3,600,000: an age of 3,600,000 or 3,600,001 is not replayed, 3,599,999 is.
C9_RestoreBoundary ==
  ev.by = "restore" =>
    LET b == hist.lastBlob
        age == now - b.timestamp
    IN /\ Called("replay") <=>
            (b.exists /\ b.editing /\ b.note.id # NoId /\ ~b.note.locked
             /\ age <= 3599999)
       /\ (b.exists /\ age \in {3600000, 3600001}) => ~Called("replay")
       /\ (b.exists /\ b.editing /\ b.note.id # NoId /\ ~b.note.locked /\ age = 3599999)
            => Called("replay")

C9_Witness ==
  /\ ev.by = "restore"
  /\ now - hist.lastBlob.timestamp = 3599999
  /\ Called("replay")

\* C10: the stored app state is replayed at most once: a replay removes it
\* from the store, and an onLoad after the replay, also one that comes
\* before the replay's loadNote has run, replays nothing.
C10_RestoreOnce ==
  /\ hist.replays <= 1
  /\ hist.replays = 1 => ~appState.exists
  /\ Cardinality({t \in timeouts : t.kind = "replay"}) <= 1
  /\ (ev.by = "restore" /\ Called("replay")) => ~appState.exists

\* C11: a saveNote called while the hook's readonly argument, the store's
\* readonly flag or the current note's readonly mark is set makes no
\* persistence call (no db.notes.add, no db.vault.save), sends no command,
\* suspends nowhere, and leaves current note, history token, save counter
\* and the notes alone.
C11_ReadonlySaveNoop ==
  [][((\E c \in ev'.calls : c.c = "saveNote")
        /\ (readonly \/ storeReadonly \/ currentNote.readonly))
       => /\ \A c \in ev'.calls :
               c.c \in {"timer", "saveNote", "saveNote.title", "saveNote.returns"}
          /\ saves' = saves
          /\ UNCHANGED <<currentNote, sessionHistoryId, saveCount, notes>>]_vars

C11_Witness ==
  /\ ev.by = "timer"
  /\ Called("saveNote")
  /\ ~readonly
  /\ storeReadonly \/ currentNote.readonly
  /\ Returns(NoId) \in ev.calls

\* C12: a saveNote given the id of a note the persistence module has no
\* record of writes nothing (no db.notes.add, no db.vault.save, the notes
\* stay as they are), runs reset (current note and content null, the
\* currently-editing pointer null for the default editor) and resolves to
\* no id.
C12_MissingNoteSave ==
  [][/\ \A c \in ev'.calls :
          (/\ c.c = "saveNote" /\ c.id # NoId /\ ~notes[c.id].exists
           /\ ~(readonly \/ storeReadonly \/ currentNote.readonly))
          => /\ \A w \in ev'.calls : w.c \notin {"notes.add", "vault.save"}
             /\ notes' = notes
             /\ currentNote' = NoNote
             /\ currentContent' = NoContent
             /\ isDefaultEditor => currentEditingNote' = NoId
             /\ \E s \in saves' : s.n = ev'.n /\ s.pc = "reset1"
     /\ \A s \in saves :
          (s.pc \in {"reset1", "reset2"} /\ s \notin saves')
          => /\ ev'.by = "save.reset"
             /\ ev'.n = s.n
             /\ notes' = notes
             /\ \A w \in ev'.calls : w.c \notin {"notes.add", "vault.save"}
             /\ \/ s.pc = "reset1" /\ [s EXCEPT !.pc = "reset2"] \in saves'
                \/ s.pc = "reset2" /\ Returns(NoId) \in ev'.calls]_vars

C12_Witness ==
  /\ ev.by = "save.reset"
  /\ Returns(NoId) \in ev.calls
  /\ currentNote = NoNote
  /\ \E i \in InitialIds : ~notes[i].exists

\* C13: a saveNote whose target record is marked conflicted makes no
\* persistence write, sends no status command, queues no list refresh,
\* suspends nowhere, and leaves the history token, the save counter and the
\* notes alone.
C13_ConflictedSave ==
  [][\A c \in ev'.calls :
       (/\ c.c = "saveNote" /\ c.id # NoId /\ notes[c.id].exists
        /\ notes[c.id].conflicted
        /\ ~(readonly \/ storeReadonly \/ currentNote.readonly))
       => /\ \A w \in ev'.calls :
               w.c \notin {"notes.add", "vault.save", "setStatus", "queueRoutesForUpdate"}
          /\ saves' = saves
          /\ UNCHANGED <<sessionHistoryId, saveCount, notes>>]_vars

C13_Witness ==
  /\ ev.by = "timer"
  /\ \E c \in ev.calls : c.c = "saveNote" /\ c.id # NoId /\ notes[c.id].conflicted
  /\ Returns(NoId) \in ev.calls
  /\ ~storeReadonly

C15_ObserverSkipsSave ==
  onChange =>
    /\ ~Called("saveNote")
    /\ saves = {}
    /\ \A c \in ev.calls :
         (c.c = "timer" /\ c.s # Undef) =>
           \E o \in ev.calls : o.c = "onChange" /\ o.s = c.s

\* C16: when a debounce callback runs under another session token than the
\* one its payload was made under, saveNote is called with the id of the
\* note that is current then, not with the id the payload was made with.
C16_StaleIdReResolved ==
  [][\A c \in ev'.calls :
       (c.c = "saveNote" /\ ev'.by = "timer" /\ ev'.sid # sessionIdRef)
       => c.id = currentNote.id]_vars

\* C17: the save counter is 0 when an editor session starts (when a session
\* token is minted) and right after reset, and only a completed save that
\* carries the active session token increments it.
C17_SaveCountPerSession ==
  [][/\ sessionIdRef' # sessionIdRef => saveCount' = 0
     /\ (currentNote' = NoNote /\ currentNote # NoNote) => saveCount' = 0
     /\ saveCount' > saveCount =>
          /\ ev'.by \in {"save.write", "save.status"}
          /\ ev'.sid = sessionIdRef]_vars

\* C18: when the db.notes.add of a saveNote call without note id returns,
\* a record exists that did not before, the current note is that record,
\* and onNoteCreated is called, once, with its id; a save that targets an
\* existing note never calls onNoteCreated.
C18_NoteCreated ==
  [][\A s \in saves :
       (s.pc = "add" /\ ev'.by = "save.write" /\ ev'.n = s.n) =>
         IF s.id = NoId
         THEN \E i \in NoteIds :
                /\ ~notes[i].exists
                /\ notes'[i].exists
                /\ currentNote' = Item(i, notes'[i])
                /\ {c \in ev'.calls : c.c = "onNoteCreated"}
                     = {Call("onNoteCreated", i, 0, "")}
         ELSE /\ \A c \in ev'.calls : c.c # "onNoteCreated"
              /\ currentNote' = currentNote]_vars

C18_Witness ==
  /\ ev.by = "save.write"
  /\ Called("onNoteCreated")
  /\ currentNote.id \in NoteIds \ InitialIds
  /\ notes[currentNote.id].exists

\* C19: a loadNote called while a note with an id is current, for a new
\* note, for another note or forced, calls db.fs.cancel with the id of that
\* note in the step of the call, in which no session token is minted and
\* neither a session id, a status nor content is sent to the editor.
C19_CancelOnSwitch ==
  [][\A c \in ev'.calls :
       (/\ c.c = "loadNote"
        /\ currentNote.id # NoId
        /\ ~(c.s = "note" /\ c.x = 0 /\ c.id = currentNote.id))
       => /\ Call("fs.cancel", currentNote.id, 0, "") \in ev'.calls
          /\ UNCHANGED <<sessionId, sessionIdRef, nextSid>>
          /\ \A w \in ev'.calls : w.c \notin {"setSessionId", "setStatus", "post.html"}
          /\ currentNote' = NoNote]_vars

C19_Witness ==
  /\ Called("loadNote")
  /\ \E c \in ev.calls : c.c = "fs.cancel" /\ c.id \in NoteIds
  /\ currentNote = NoNote

\* C20: in the editor session started by loadNote({type: "new"}), saveNote
\* calls db.notes.add without an id at most once, so the session creates at
\* most one note record: the records the session has created and its
\* pending db.notes.add calls without an id are never more than one.
C20_OneNotePerSession ==
  (nLoads > 0 /\ loads = {}) =>
    Cardinality({s \in saves : s.pc = "add" /\ s.id = NoId /\ s.sid = sessionIdRef})
    + Cardinality({i \in NoteIds : notes[i].exists /\ notes[i].by = sessionIdRef})
    <= 1

\* C21: loadNote calls for different notes may interleave at their awaits;
\* once no call is suspended, the current note, the note the active session
\* token was minted for, the store's currently-editing id and the note of
\* the title last sent to the editor are one note, and every title sent by
\* a loadNote is tagged with the token minted for the note it belongs to.
C21_LoadsConverge ==
  /\ (loads = {} /\ hist.owner # NoId) =>
       /\ currentNote.id = hist.owner
       /\ currentEditingNote = hist.owner
       /\ hist.titled = hist.owner
  /\ \A c \in ev.calls :
       (ev.by = "load" /\ c.c = "post.title" /\ c.id # NoId) =>
         (c.x = sessionIdRef /\ hist.owner = c.id)

\* C22: when a title change and a content change are notified under one
\* timer name less than 500 units apart, the note written by the save of
\* the last of them holds, once db.notes.add or db.vault.save has resolved,
\* the latest title and the latest content notified in that period.
C22_NoEditDropped ==
  \A k \in Keys : \A c \in ev.calls :
    (/\ ev.by = "save.write"
     /\ ev.n = hist.lastNotif[k].n
     /\ c.c \in {"setStatus", "saveNote.returns"}
     /\ c.id # NoId)
    => /\ hist.pend[k].title # Undef => notes[c.id].title = hist.pend[k].title
       /\ hist.pend[k].data # Undef => notes[c.id].data = hist.pend[k].data

\* C23: every show of the loading overlay (by loadNote for an existing
\* note, by restoreEditorState) is followed, sooner or later, by a hide of
\* the overlay, also when a call awaited by loadNote rejects.
C23_OverlayDismissed ==
  (\E c \in ev.calls : c.c = "overlay" /\ c.x = 1)
    ~> (\E c \in ev.calls : c.c = "overlay" /\ c.x = 0)

\* C24: in the create-vault flow (novault unset) onPress calls
\* db.vault.create only with a password that is entered, has at least
\* MinPassword characters and equals the confirmation; a press that does not
\* call it leaves the dialog open.
C24_CreateNeedsPassword ==
  ev.by = "dialog.press" =>
    /\ \A c \in ev.calls :
         c.c = "vault.create" =>
           /\ c.s = "text" /\ c.x >= MinPassword
           /\ dialog.password = dialog.confirmPassword
    /\ dialog.visible

\* C25: for a locked note, deleting it (and likewise opening it in the
\* editor, sharing it, copying it, removing it from the vault) happens only
\* in the handler of a db.vault.open / db.vault.remove that resolved with the
\* entered password, which is called only in the handler of a
\* db.vault.unlock that resolved with the entered password; a rejection with
\* the wrong-password error performs no such action, sets wrongPassword and
\* leaves the dialog as visible as it was.
NoteCalls == {"openInEditor", "share", "copy", "notes.delete", "removed"}
Settled(kind) ==
  \E o \in vaultOps \ vaultOps' : o.n = ev'.n /\ o.kind = kind /\ Accepts(vault, o.pw)

C25_PasswordGatedActions ==
  [][/\ \A c \in ev'.calls :
          /\ c.c \in {"openInEditor", "share", "copy", "notes.delete"} =>
               ev'.by = "vault.open.resolved" /\ Settled("open")
          /\ c.c = "removed" =>
               ev'.by = "vault.remove.resolved" /\ Settled("remove")
          /\ c.c \in {"vault.open", "vault.remove"} =>
               ev'.by = "vault.unlock.resolved" /\ Settled("unlock")
     /\ vault'.deleted # vault.deleted =>
          \E o \in vaultOps \ vaultOps' : o.n = ev'.n /\ o.kind = "delete"
     /\ (ev'.by = "vault.rejected" /\ ErrorOf(vault) = WrongPassword) =>
          /\ \A c \in ev'.calls : c.c \notin NoteCalls
          /\ vaultOps' \subseteq vaultOps
          /\ vault' = vault
          /\ dialog'.wrongPassword
          /\ dialog'.visible = dialog.visible]_vars

\* a first password was rejected, and the note was deleted with a second
C25_Witness ==
  /\ ev.by = "notes.delete.resolved"
  /\ LockedNote.id \in vault.deleted
  /\ dialog.wrongPassword

\* C26: while loading is true, close() leaves visible, note and the password
\* fields as they are and onPress starts no vault operation; loading becomes
\* true only in the press that calls db.vault.changePassword, it is true
\* only while that call is pending, and the handler of its resolution or
\* rejection sets it back to false.
ChangeSteps == {"vault.changePassword.resolved", "vault.changePassword.rejected"}

C26_BusyDialogInert ==
  [][/\ (dialog.loading /\ ev'.by = "dialog.close") =>
          /\ dialog'.visible = dialog.visible
          /\ dialog'.note = dialog.note
          /\ dialog'.password = dialog.password
          /\ dialog'.confirmPassword = dialog.confirmPassword
          /\ dialog'.newPassword = dialog.newPassword
     /\ (dialog.loading /\ ev'.by = "dialog.press") =>
          /\ vaultOps' = vaultOps
          /\ ev'.calls = {}
     /\ (~dialog.loading /\ dialog'.loading) =>
          /\ ev'.by = "dialog.press"
          /\ \E c \in ev'.calls : c.c = "vault.changePassword"
     /\ dialog'.loading => \E o \in vaultOps' : o.kind = "changePassword"
     /\ ev'.by \in ChangeSteps => ~dialog'.loading]_vars

\* the negative button was pressed while the password was being changed
C26_Witness ==
  /\ ev.by = "dialog.close"
  /\ dialog.loading
  /\ dialog.visible
  /\ ~Falsy(dialog.newPassword)

\* C27: when close() has run with loading false, password, confirmPassword
\* and newPassword are all null, whatever flow came before.
C27_NoPasswordSurvivesClose ==
  (\E c \in ev.calls : c.c = "close" /\ c.s = "done") =>
    /\ dialog.password = NoPassword
    /\ dialog.confirmPassword = NoPassword
    /\ dialog.newPassword = NoPassword

====
